---- MODULE Spec2Model ----
(***************************************************************************)
(* State-machine model of src/main.py (Endoscopy Data Logger):            *)
(*   UserManager    - credential store, authenticate, logout              *)
(*   LoginWindow    - login handler                                        *)
(*   FileNamingGUI  - naming fields, device detection, start/stop of the  *)
(*                    logging session, the background thread log_data,    *)
(*                    logout and window close                              *)
(* Text the program computes with (field values, paths, port              *)
(* descriptions) is a sequence of one-character strings; opaque           *)
(* identifiers (user names, passwords, port devices) are TLA+ strings.    *)
(***************************************************************************)
EXTENDS Integers, Sequences, FiniteSets, TLC

\* ------------------------------------------------------------- bounds
\* Number of sessions (background threads) one run may start.
MaxThreads == 2
\* Number of non-empty lines the device delivers in one run.
MaxLines == 2
\* Number of sessions one run may start where the naming fields, the folder
\* and the detected port vary (SpecPaths).
MaxPathThreads == 1

\* --------------------------------------------------- program constants
\* time.sleep(2) after opening the serial connection
SettleDelay == 2
\* serial.Serial(..., timeout=1)
ReadTimeout == 1
\* time.sleep(1) in logout / on_closing
GraceDelay == 1

\* ---------------------------------------------------------------- text
None == "<None>"

Last(s) == s[Len(s)]

RECURSIVE Concat(_)
\* "".join(parts)
Concat(parts) ==
    IF parts = <<>> THEN <<>> ELSE Head(parts) \o Concat(Tail(parts))

Letters ==
    [a |-> "A", b |-> "B", c |-> "C", d |-> "D", e |-> "E", f |-> "F",
     g |-> "G", h |-> "H", i |-> "I", j |-> "J", k |-> "K", l |-> "L",
     m |-> "M", n |-> "N", o |-> "O", p |-> "P", q |-> "Q", r |-> "R",
     s |-> "S", t |-> "T", u |-> "U", v |-> "V", w |-> "W", x |-> "X",
     y |-> "Y", z |-> "Z"]

\* str.upper(), one character
UpperChar(ch) == IF ch \in DOMAIN Letters THEN Letters[ch] ELSE ch

\* str.upper()
Upper(s) == [idx \in 1..Len(s) |-> UpperChar(s[idx])]

\* keyword in text
Contains(text, keyword) ==
    \E idx \in 1..(Len(text) - Len(keyword) + 1) :
        SubSeq(text, idx, idx + Len(keyword) - 1) = keyword

Slash == "/"

\* os.path.join(folder, filename), POSIX flavour
PathJoin(folder, filename) ==
    IF filename # <<>> /\ Head(filename) = Slash THEN filename
    ELSE IF folder = <<>> \/ Last(folder) = Slash THEN folder \o filename
    ELSE folder \o <<Slash>> \o filename

\* index of the last "/" of a path, 0 when it has none
LastSlash(path) ==
    IF \E idx \in 1..Len(path) : path[idx] = Slash
    THEN CHOOSE idx \in 1..Len(path) :
            /\ path[idx] = Slash
            /\ \A later \in (idx + 1)..Len(path) : path[later] # Slash
    ELSE 0

RECURSIVE RStripSlash(_)
RStripSlash(s) ==
    IF s # <<>> /\ Last(s) = Slash THEN RStripSlash(SubSeq(s, 1, Len(s) - 1)) ELSE s

\* os.path.split(path): <<head, tail>>
PathSplit(path) ==
    LET cut == LastSlash(path)
        head == SubSeq(path, 1, cut)
        tail == SubSeq(path, cut + 1, Len(path))
    IN  <<IF RStripSlash(head) = <<>> THEN head ELSE RStripSlash(head), tail>>

\* ------------------------------------------------------- naming fields
CsvExt == <<".", "c", "s", "v">>
EndoData == <<"E", "n", "d", "o", "_", "D", "a", "t", "a">>
AltFolder == <<"X">>

\* tk.StringVar(value=...) of the six naming fields, in the order of
\* generate_filename's parts
DefaultFields ==
    <<  <<"C", "R">>, <<"B", "1">>, <<"Y", "1">>,
        <<"E", "0", "1">>, <<"S", "1">>, <<"T", "1">>  >>

\* free text typed into naming field idx: nothing, a text with a path
\* separator, the text of another field
NameTexts(idx) ==
    CASE idx = 1 -> { DefaultFields[1], <<Slash>> \o DefaultFields[1], <<>> }
      [] idx = 2 -> { DefaultFields[2], DefaultFields[6] }
      [] idx = 6 -> { DefaultFields[6], <<"T", Slash, "1">> }
      [] OTHER -> { DefaultFields[idx] }

\* text typed into the folder entry, or chosen with Browse
NameFolders == { EndoData, AltFolder \o <<Slash>>, <<>> }

\* text a user types into naming field idx, trials being the texts typed
\* into the trial field
FieldInputs(idx, trials) == IF idx = 6 THEN trials ELSE { DefaultFields[idx] }

\* generate_filename joining the parts in the reverse order
generate_filename_reversed(f) ==
    Concat(<<f[6], f[5], f[4], f[3], f[2], f[1]>>) \o CsvExt

\* FileNamingGUI.generate_filename
generate_filename(f) == Concat(f) \o CsvExt

\* ------------------------------------------------------ credential store
\* hashlib.sha256(password.encode()).hexdigest() on the passwords of the model
hash_password(password) ==
    CASE password = "admin123" ->
            "240be518fabd2724ddb6f04eeb1da5967448d7e831c08c8fa822809f74c720a9"
      [] password = "user123" ->
            "e606e38b0d8c19b24cf0ee3808183162ea7cd63ff7912dbb22b5e803286b4446"
      [] password = "wrong" ->
            "8810ad581e59f2bc3928b261707a71308f7e139eb04820366dc4d5c18d980225"
      [] password = "admin" ->
            "8c6976e5b5410415bde908bd4dee15dfb167a9c873fc4bb8a81f6f2ab448a918"
      [] password = "" ->
            "e3b0c44298fc1c149afbf4c8996fb92427ae41e4649b934ca495991b7852b855"

\* the default users of load_users
DefaultUsers ==
    [u \in {"admin", "user"} |->
        IF u = "admin"
        THEN [password |-> hash_password("admin123"), role |-> "admin"]
        ELSE [password |-> hash_password("user123"), role |-> "user"]]

\* str.strip() on the texts typed into the login form
Strip(text) ==
    CASE text = " " -> ""
      [] text = " admin " -> "admin"
      [] OTHER -> text

\* ------------------------------------------------------ serial ports
GenericUSB == <<"G", "e", "n", "e", "r", "i", "c", " ", "U", "S", "B">>
ArduinoUno == <<"A", "r", "d", "u", "i", "n", "o", " ", "U", "n", "o">>

Keywords ==
    <<  <<"A", "R", "D", "U", "I", "N", "O">>,
        <<"C", "H", "3", "4", "0">>,
        <<"U", "S", "B", " ", "S", "E", "R", "I", "A", "L">>,
        <<"F", "T", "D", "I">>  >>

COM3 == [device |-> "COM3", description |-> GenericUSB]
COM5 == [device |-> "COM5", description |-> ArduinoUno]
COM4 == [device |-> "COM4", description |-> <<"c", "h", "3", "4", "0">>]
COM7 == [device |-> "COM7", description |-> <<"F", "T", "D">>]

\* what serial.tools.list_ports.comports() may return
PortLists ==
    {   <<>>, <<COM3>>, <<COM7, COM3>>, <<COM3, COM5>>, <<COM5, COM4>>,
        <<COM7, COM3, COM4, COM5>>   }

\* any(keyword in port.description.upper() for keyword in [...])
IsArduino(port) ==
    \E k \in 1..Len(Keywords) : Contains(Upper(port.description), Keywords[k])

\* detect_arduino taking the first port whatever its description
DetectPort_first(ports) == IF ports # <<>> THEN ports[1].device ELSE None

\* detect_arduino's choice: the device, or None
DetectPort(ports) ==
    IF \E idx \in 1..Len(ports) : IsArduino(ports[idx])
    THEN ports[CHOOSE idx \in 1..Len(ports) :
                    /\ IsArduino(ports[idx])
                    /\ \A before \in 1..(idx - 1) : ~IsArduino(ports[before])].device
    ELSE IF ports # <<>> THEN ports[1].device
    ELSE None

\* ---------------------------------------------------------------- files
Header == "timestamp,data"
\* a row nobody wrote: the gap before a write past the end of a file
Hole == "<hole>"

\* the text of the n-th non-empty line the device sends
LineTexts == <<"line1", "line2", "line3", "line4", "line5", "line6">>

Max(a, b) == IF a >= b THEN a ELSE b

\* the content of a file after rows are written at offset pos
WriteAt(content, pos, rows) ==
    IF rows = <<>> THEN content
    ELSE [idx \in 1..Max(Len(content), pos + Len(rows)) |->
            IF idx > pos /\ idx <= pos + Len(rows) THEN rows[idx - pos]
            ELSE IF idx <= Len(content) THEN content[idx]
            ELSE Hole]

Threads == 1..MaxThreads

VARIABLES
    \* UserManager
    users,              \* self.users
    users_file,         \* users.json on disk: [kind, content]
    current_user,       \* self.current_user
    current_role,       \* self.current_role
    \* the windows and the interactive thread
    window,             \* "login" | "main" | "closed": the window that is up
    ui_pc,              \* "idle" | "logout_grace" | "closing_grace"
    grace,              \* time left of the interactive thread's time.sleep(1)
    msgbox,             \* the message box on screen, "none" when none
    afterq,             \* callbacks posted with window.after(0, ...)
    \* FileNamingGUI
    fields,             \* the six naming StringVars
    output_folder_var,
    filename_var,
    full_path_var,
    arduino_port,       \* self.arduino_port, None while never assigned
    port_var,
    \* (status_var, the text of the status line, is written by the handlers
    \* and read by none: it is not part of the model)
    start_btn,          \* state of the Start Logging button
    stop_btn,           \* state of the Stop Logging button
    is_logging,         \* self.is_logging, the stop-flag
    log_thread,         \* self.log_thread: the last thread started, 0 for None
    \* background threads running log_data
    nthreads,           \* threads started so far
    pc,                 \* where each thread is in log_data
    ser,                \* the port each thread holds open, None when none
    fpath,              \* the path of each thread's open file, <<>> when none
    fpos,               \* rows each thread's file object has passed to the OS
    fbuf,               \* rows in each thread's file object's buffer
    line,               \* each thread's local variable line
    timer,              \* time left of each thread's blocking call
    received,           \* history: the non-empty lines each thread has read
    gate,               \* history: the path start_logging checked for each
                        \* thread it started, and whether overwriting that
                        \* path was confirmed
    \* the environment
    dirs,               \* the directories that exist
    files,              \* the files that exist: path -> rows on disk
    nlines              \* lines the device has delivered so far

umVars == <<users, users_file, current_user, current_role>>
uiVars == <<window, ui_pc, grace, msgbox, afterq>>
nameVars == <<fields, output_folder_var, filename_var, full_path_var>>
devVars == <<arduino_port, port_var>>
ctlVars == <<start_btn, stop_btn, is_logging, log_thread>>
thrVars == <<nthreads, pc, ser, fpath, fpos, fbuf, line, timer, received, gate>>
envVars == <<dirs, files, nlines>>
vars == <<umVars, uiVars, nameVars, devVars, ctlVars, thrVars, envVars>>

\* a file left by an earlier run, at the path the default fields name
OldFile == PathJoin(EndoData, generate_filename(DefaultFields))

\* a file left by an earlier run in the root directory
RootFile == <<Slash>> \o generate_filename(DefaultFields)

\* a credential store holding the hash of each user's secret
StoreOf(secrets) ==
    [u \in DOMAIN secrets |->
        [password |-> hash_password(secrets[u]["secret"]), role |-> secrets[u]["role"]]]

\* the secrets and roles behind the stores a users.json may hold
SecretMaps ==
    {   [u \in {"admin", "user"} |->
            IF u = "admin" THEN [secret |-> "admin123", role |-> "admin"]
            ELSE [secret |-> "user123", role |-> "user"]],
        [u \in {"admin"} |-> [secret |-> "admin", role |-> "user"]],
        [u \in {"ghost", "user"} |->
            IF u = "ghost" THEN [secret |-> "wrong", role |-> "admin"]
            ELSE [secret |-> "admin123", role |-> "user"]],
        [u \in {} |-> [secret |-> "", role |-> "user"]]   }

\* users.json holding the JSON text of store
JsonFile(store) == [kind |-> "json", content |-> store]

\* the store with no user
EmptyStore == [u \in {} |-> [password |-> "", role |-> "user"]]

\* users.json missing; existing and unreadable; holding no JSON text
AbsentFile == [kind |-> "absent", content |-> EmptyStore]
UnreadableFile == [kind |-> "unreadable", content |-> EmptyStore]
MalformedFile == [kind |-> "malformed", content |-> EmptyStore]

\* the state of everything but the credential store when the process starts
InitRest ==
    /\ current_user = None
    /\ current_role = None
    /\ ui_pc = "idle"
    /\ grace = 0
    /\ msgbox = "none"
    /\ afterq = <<>>
    /\ fields = DefaultFields
    /\ output_folder_var = EndoData
    /\ filename_var = generate_filename(DefaultFields)
    /\ full_path_var = PathJoin(EndoData, generate_filename(DefaultFields))
    /\ arduino_port = None
    /\ port_var = <<>>
    /\ start_btn = "disabled"
    /\ stop_btn = "disabled"
    /\ is_logging = FALSE
    /\ log_thread = 0
    /\ nthreads = 0
    /\ pc = [t \in Threads |-> "none"]
    /\ ser = [t \in Threads |-> None]
    /\ fpath = [t \in Threads |-> <<>>]
    /\ fpos = [t \in Threads |-> 0]
    /\ fbuf = [t \in Threads |-> <<>>]
    /\ line = [t \in Threads |-> ""]
    /\ timer = [t \in Threads |-> 0]
    /\ received = [t \in Threads |-> <<>>]
    /\ gate = [t \in Threads |-> [path |-> <<>>, confirmed |-> FALSE, port |-> None]]
    /\ dirs = { EndoData, <<Slash>> }
    /\ files = [p \in { OldFile, RootFile } |-> <<Header, "old">>]
    /\ nlines = 0

\* the state after main() has built the UserManager and the login window,
\* self.users being store
InitWith(store) ==
    /\ users = store
    /\ users_file = JsonFile(store)
    /\ window = "login"
    /\ InitRest

\* users.json absent at start: load_users has seeded the default users
Init == InitWith(DefaultUsers)

\* users.json holding any of the stores
InitAuth ==
    \/ InitWith(DefaultUsers)
    \/ \E secrets \in SecretMaps : InitWith(StoreOf(secrets))

\* the process starts: users.json is in any state, UserManager() not yet built
InitLoad ==
    /\ users = EmptyStore
    /\ users_file \in {AbsentFile, UnreadableFile, MalformedFile}
                        \cup { JsonFile(StoreOf(secrets)) : secrets \in SecretMaps }
    /\ window = "start"
    /\ InitRest

\* ------------------------------------------------------- UserManager
\* UserManager.save_users: users.json after store is saved. written: the
\* file was written; it was not opened; the write broke off
save_users(store, written) ==
    CASE written = "ok" -> JsonFile(store)
      [] written = "not opened" -> users_file
      [] written = "broken" -> MalformedFile

\* load_users seeding the default users also when users.json cannot be read
load_users_reseed(written) ==
    /\ window = "start"
    /\ IF users_file.kind = "json"
       THEN users' = users_file.content /\ UNCHANGED users_file
       ELSE users' = DefaultUsers /\ users_file' = save_users(DefaultUsers, written)
    /\ window' = "login"
    /\ UNCHANGED <<current_user, current_role, ui_pc, grace, msgbox, afterq, nameVars,
                   devVars, ctlVars, thrVars, envVars>>

\* UserManager.__init__, load_users; then main() shows the login window
load_users(written) ==
    /\ window = "start"
    /\ CASE users_file.kind = "json" ->
                /\ users' = users_file.content
                /\ UNCHANGED users_file
          [] users_file.kind = "absent" ->
                /\ users' = DefaultUsers
                /\ users_file' = save_users(DefaultUsers, written)
          [] OTHER ->
                /\ users' = EmptyStore
                /\ UNCHANGED users_file
    /\ window' = "login"
    /\ UNCHANGED <<current_user, current_role, ui_pc, grace, msgbox, afterq, nameVars,
                   devVars, ctlVars, thrVars, envVars>>

\* authenticate comparing the stored hash with the password itself
authenticate_plaintext(username, password) ==
    /\ username \in DOMAIN users
    /\ users[username]["password"] = password

\* UserManager.authenticate: its return value
authenticate(username, password) ==
    /\ username \in DOMAIN users
    /\ users[username]["password"] = hash_password(password)

\* UserManager.logout
UserManager_logout ==
    /\ current_user' = None
    /\ current_role' = None

\* ------------------------------------------------------- FileNamingGUI
\* FileNamingGUI.update_filename, for the field values f and the folder
update_filename(f, folder) ==
    /\ filename_var' = generate_filename(f)
    /\ full_path_var' = PathJoin(folder, generate_filename(f))

\* FileNamingGUI.__init__ with create_widgets: a new main window.
\* self.arduino_port is not assigned here: it keeps the value a detection
\* gave it when show_main_window runs __init__ again on the same object.
FileNamingGUI_init ==
    /\ window' = "main"
    /\ afterq' = <<>>
    /\ fields' = DefaultFields
    /\ output_folder_var' = EndoData
    /\ update_filename(DefaultFields, EndoData)
    /\ is_logging' = FALSE
    /\ log_thread' = 0
    /\ port_var' = <<>>
    /\ start_btn' = "disabled"
    /\ stop_btn' = "disabled"

\* the interactive thread is in the main window's event loop
MainIdle == window = "main" /\ ui_pc = "idle"

\* LoginWindow.login, with the texts of the two entries
login(username_text, password_text) ==
    /\ window = "login"
    /\ LET username == Strip(username_text)
           password == Strip(password_text)
       IN  IF username = "" \/ password = ""
           THEN /\ msgbox' = "Please enter both username and password"
                /\ UNCHANGED <<umVars, window, ui_pc, grace, afterq, nameVars,
                               devVars, ctlVars, thrVars, envVars>>
           ELSE IF authenticate(username, password)
           THEN /\ current_user' = username
                /\ current_role' = users[username]["role"]
                /\ msgbox' = "Welcome"
                /\ FileNamingGUI_init
                /\ UNCHANGED <<users, users_file, ui_pc, grace, arduino_port, thrVars, envVars>>
           ELSE /\ msgbox' = "Invalid username or password"
                /\ UNCHANGED <<umVars, window, ui_pc, grace, afterq, nameVars,
                               devVars, ctlVars, thrVars, envVars>>

\* a key released in naming field idx, whose text is now text
edit_field(idx, text) ==
    /\ MainIdle
    /\ fields' = [fields EXCEPT ![idx] = text]
    /\ update_filename(fields', output_folder_var)
    /\ msgbox' = "none"
    /\ UNCHANGED <<umVars, window, ui_pc, grace, afterq, output_folder_var, devVars,
                   ctlVars, thrVars, envVars>>

\* a key released in the folder entry, whose text is now folder
edit_folder(folder) ==
    /\ MainIdle
    /\ output_folder_var' = folder
    /\ update_filename(fields, folder)
    /\ msgbox' = "none"
    /\ UNCHANGED <<umVars, window, ui_pc, grace, afterq, fields, devVars, ctlVars,
                   thrVars, envVars>>

\* FileNamingGUI.browse_folder, the dialog returning folder (<<>>: cancelled)
browse_folder(folder) ==
    /\ MainIdle
    /\ IF folder # <<>>
       THEN /\ output_folder_var' = folder
            /\ update_filename(fields, folder)
       ELSE UNCHANGED <<output_folder_var, filename_var, full_path_var>>
    /\ msgbox' = "none"
    /\ UNCHANGED <<umVars, window, ui_pc, grace, afterq, fields, devVars, ctlVars,
                   thrVars, envVars>>

\* detect_arduino enabling the Start button whatever it found
detect_arduino_enabling(ports, raises) ==
    /\ MainIdle
    /\ IF ~raises /\ DetectPort(ports) # None
       THEN /\ port_var' = <<"Detected", DetectPort(ports)>>
            /\ arduino_port' = DetectPort(ports)
       ELSE /\ port_var' = <<"No Arduino found">>
            /\ UNCHANGED arduino_port
    /\ start_btn' = "normal"
    /\ msgbox' = "none"
    /\ UNCHANGED <<umVars, window, ui_pc, grace, afterq, nameVars, stop_btn,
                   is_logging, log_thread, thrVars, envVars>>

\* FileNamingGUI.detect_arduino, comports() returning ports; raises: it raises
detect_arduino(ports, raises) ==
    /\ MainIdle
    /\ IF raises
       THEN /\ port_var' = <<"Error">>
            /\ start_btn' = "disabled"
            /\ UNCHANGED arduino_port
       ELSE IF DetectPort(ports) # None
       THEN /\ port_var' = <<"Detected", DetectPort(ports)>>
            /\ arduino_port' = DetectPort(ports)
            /\ start_btn' = "normal"
       ELSE /\ port_var' = <<"No Arduino found">>
            /\ start_btn' = "disabled"
            /\ UNCHANGED arduino_port
    /\ msgbox' = "none"
    /\ UNCHANGED <<umVars, window, ui_pc, grace, afterq, nameVars, stop_btn,
                   is_logging, log_thread, thrVars, envVars>>

\* os.path.exists
Exists(path) == path \in dirs \/ path \in DOMAIN files

\* os.makedirs(folder) succeeds; it raises for the empty path
CanMake(folder, mkdir_ok) == mkdir_ok /\ folder # <<>>

\* start_logging without the guard of line 359: a Running session starts
\* another thread
start_logging_unguarded ==
    /\ is_logging
    /\ nthreads < MaxThreads
    /\ msgbox' = "none"
    /\ nthreads' = nthreads + 1
    /\ log_thread' = nthreads + 1
    /\ pc' = [pc EXCEPT ![nthreads + 1] = "connect"]
    /\ UNCHANGED <<umVars, window, ui_pc, grace, afterq, nameVars, devVars, start_btn,
                   stop_btn, is_logging, ser, fpath, fpos, fbuf, line, timer,
                   received, gate, envVars>>

\* FileNamingGUI.start_logging, called with the session Running
start_logging_running ==
    /\ is_logging
    /\ msgbox' = "none"
    /\ UNCHANGED <<umVars, window, ui_pc, grace, afterq, nameVars, devVars, ctlVars,
                   thrVars, envVars>>

\* FileNamingGUI.start_logging, called with the session Idle.
\* mkdir_ok: the file system lets os.makedirs succeed; overwrite: the answer
\* to "Overwrite?"; sessions: the number of sessions the run may start
start_logging_idle(mkdir_ok, overwrite, sessions) ==
    /\ ~is_logging
    /\ nthreads < sessions
    /\ LET folder == output_folder_var
           full_path == full_path_var
           made == IF ~Exists(folder) /\ CanMake(folder, mkdir_ok)
                   THEN dirs \cup {folder} ELSE dirs
       IN  IF ~Exists(folder) /\ ~CanMake(folder, mkdir_ok)
           THEN /\ msgbox' = "Failed to create folder"
                /\ UNCHANGED <<ctlVars, thrVars, envVars>>
           ELSE IF (full_path \in made \/ full_path \in DOMAIN files) /\ ~overwrite
           THEN /\ dirs' = made
                /\ msgbox' = "none"
                /\ UNCHANGED <<ctlVars, thrVars, files, nlines>>
           ELSE /\ dirs' = made
                /\ msgbox' = "none"
                /\ is_logging' = TRUE
                /\ nthreads' = nthreads + 1
                /\ log_thread' = nthreads + 1
                /\ pc' = [pc EXCEPT ![nthreads + 1] = "connect"]
                /\ start_btn' = "disabled"
                /\ stop_btn' = "normal"
                /\ gate' = [gate EXCEPT ![nthreads + 1] =
                                [path |-> full_path,
                                 confirmed |-> full_path \in made \/ full_path \in DOMAIN files,
                                 port |-> arduino_port]]
                /\ UNCHANGED <<ser, fpath, fpos, fbuf, line, timer, received,
                               files, nlines>>
    /\ UNCHANGED <<umVars, window, ui_pc, grace, afterq, nameVars, devVars>>

\* the Start Logging button, which only an enabled button passes on
start_logging(mkdir_ok, overwrite, sessions) ==
    /\ MainIdle
    /\ start_btn = "normal"
    /\ \/ start_logging_running
       \/ start_logging_idle(mkdir_ok, overwrite, sessions)

\* stop_logging clearing the flag and leaving the buttons as they are
stop_logging_flag_only ==
    /\ is_logging' = FALSE
    /\ UNCHANGED <<start_btn, stop_btn>>

\* FileNamingGUI.stop_logging: what it assigns
stop_logging ==
    /\ is_logging' = FALSE
    /\ start_btn' = "normal"
    /\ stop_btn' = "disabled"

\* the Stop Logging button, which only an enabled button passes on
stop_button ==
    /\ MainIdle
    /\ stop_btn = "normal"
    /\ stop_logging
    /\ msgbox' = "none"
    /\ UNCHANGED <<umVars, window, ui_pc, grace, afterq, nameVars, devVars,
                   log_thread, thrVars, envVars>>

\* ------------------------------------------- the background thread
\* a thread of log_data that has been started and has not ended
Alive(t) == pc[t] \in {"connect", "settle", "check", "read", "write",
                       "close", "close_err"}

\* the process runs: the interpreter has not exited, which ends daemon threads
Running == window # "closed"

\* log_data's handler of an exception outside the read loop (lines 426-428):
\* self.window.after(0, showerror) and self.window.after(0, self.stop_logging).
\* With the main window destroyed the first after() raises and the thread
\* ends with that error.
log_data_except(t, ended) ==
    IF window = "main"
    THEN /\ afterq' = afterq \o <<"showerror", "stop_logging">>
         /\ pc' = [pc EXCEPT ![t] = ended]
    ELSE /\ pc' = [pc EXCEPT ![t] = "crashed"]
         /\ UNCHANGED afterq

\* log_data line 401: serial.Serial(self.arduino_port, 9600, timeout=1);
\* opens: the port can be opened. Then time.sleep(2) begins.
log_data_connect(t, opens) ==
    /\ Running
    /\ pc[t] = "connect"
    /\ IF opens /\ arduino_port # None
       THEN /\ ser' = [ser EXCEPT ![t] = arduino_port]
            /\ pc' = [pc EXCEPT ![t] = "settle"]
            /\ timer' = [timer EXCEPT ![t] = SettleDelay]
            /\ UNCHANGED afterq
       ELSE /\ log_data_except(t, "conn_failed")
            /\ UNCHANGED <<ser, timer>>
    /\ UNCHANGED <<umVars, window, ui_pc, grace, msgbox, nameVars, devVars, ctlVars,
                   nthreads, fpath, fpos, fbuf, line, received, gate, envVars>>

\* open(path, 'w') succeeds: the directory of path exists, path is none
CanCreate(path) ==
    /\ PathSplit(path)[1] \in dirs \cup { <<>> }
    /\ path \notin dirs

\* log_data lines 402-406: time.sleep(2) has returned;
\* open(self.full_path_var.get(), 'w') and the header written into the
\* file object's buffer
log_data_open_file(t) ==
    /\ Running
    /\ pc[t] = "settle"
    /\ timer[t] = 0
    /\ IF window = "main" /\ CanCreate(full_path_var)
       THEN /\ files' = [p \in DOMAIN files \cup {full_path_var} |->
                            IF p = full_path_var THEN <<>> ELSE files[p]]
            /\ fpath' = [fpath EXCEPT ![t] = full_path_var]
            /\ fpos' = [fpos EXCEPT ![t] = 0]
            /\ fbuf' = [fbuf EXCEPT ![t] = <<Header>>]
            /\ pc' = [pc EXCEPT ![t] = "check"]
            /\ UNCHANGED afterq
       ELSE /\ log_data_except(t, "file_failed")
            /\ UNCHANGED <<files, fpath, fpos, fbuf>>
    /\ UNCHANGED <<umVars, window, ui_pc, grace, msgbox, nameVars, devVars, ctlVars,
                   nthreads, ser, line, timer, received, gate, dirs, nlines>>

\* log_data line 408: while self.is_logging; with the flag set
\* ser.readline() begins, else the loop is left
while_is_logging(t) ==
    IF is_logging
    THEN /\ pc' = [pc EXCEPT ![t] = "read"]
         /\ timer' = [timer EXCEPT ![t] = ReadTimeout]
    ELSE /\ pc' = [pc EXCEPT ![t] = "close"]
         /\ UNCHANGED timer

\* log_data line 408, reached from line 406 or from line 419
log_data_check(t) ==
    /\ Running
    /\ pc[t] = "check"
    /\ while_is_logging(t)
    /\ UNCHANGED <<umVars, uiVars, nameVars, devVars, ctlVars, nthreads, ser, fpath,
                   fpos, fbuf, line, received, gate, envVars>>

\* log_data line 410: ser.readline().decode('utf-8').strip() returns a
\* non-empty line
log_data_read_line(t) ==
    /\ Running
    /\ pc[t] = "read"
    /\ nlines < MaxLines
    /\ nlines' = nlines + 1
    /\ line' = [line EXCEPT ![t] = LineTexts[nlines + 1]]
    /\ received' = [received EXCEPT ![t] = Append(@, LineTexts[nlines + 1])]
    /\ pc' = [pc EXCEPT ![t] = "write"]
    /\ UNCHANGED <<umVars, uiVars, nameVars, devVars, ctlVars, nthreads, ser, fpath,
                   fpos, fbuf, timer, gate, dirs, files>>

\* log_data lines 410-411, 408: the read times out, the empty line is
\* skipped and the flag is checked
log_data_read_timeout(t) ==
    /\ Running
    /\ pc[t] = "read"
    /\ timer[t] = 0
    /\ line' = [line EXCEPT ![t] = ""]
    /\ while_is_logging(t)
    /\ UNCHANGED <<umVars, uiVars, nameVars, devVars, ctlVars, nthreads, ser, fpath,
                   fpos, fbuf, received, gate, envVars>>

\* log_data lines 410, 420-422: the read or the decoding raises; break
log_data_read_error(t) ==
    /\ Running
    /\ pc[t] = "read"
    /\ pc' = [pc EXCEPT ![t] = "close_err"]
    /\ UNCHANGED <<umVars, uiVars, nameVars, devVars, ctlVars, nthreads, ser, fpath,
                   fpos, fbuf, line, timer, received, gate, envVars>>

\* log_data lines 412-419: the row is written and flushed and the status
\* update is posted. (A row's timestamp is not modelled: a row is its line.
\* The posted callback only sets the status line's text.) With the main
\* window destroyed after() raises, which the handler of line 420
\* catches: break.
log_data_write(t) ==
    /\ Running
    /\ pc[t] = "write"
    /\ files' = [files EXCEPT ![fpath[t]] = WriteAt(@, fpos[t], Append(fbuf[t], line[t]))]
    /\ fpos' = [fpos EXCEPT ![t] = @ + Len(fbuf[t]) + 1]
    /\ fbuf' = [fbuf EXCEPT ![t] = <<>>]
    /\ pc' = [pc EXCEPT ![t] = IF window = "main" THEN "check" ELSE "close_err"]
    /\ UNCHANGED <<umVars, uiVars, nameVars, devVars, ctlVars, nthreads, ser, fpath,
                   line, timer, received, gate, dirs, nlines>>

\* log_data lines 405, 424: the with block closes the file, which flushes
\* the buffer; ser.close()
log_data_close(t) ==
    /\ Running
    /\ pc[t] \in {"close", "close_err"}
    /\ files' = [files EXCEPT ![fpath[t]] = WriteAt(@, fpos[t], fbuf[t])]
    /\ fpath' = [fpath EXCEPT ![t] = <<>>]
    /\ fpos' = [fpos EXCEPT ![t] = 0]
    /\ fbuf' = [fbuf EXCEPT ![t] = <<>>]
    /\ line' = [line EXCEPT ![t] = ""]
    /\ ser' = [ser EXCEPT ![t] = None]
    /\ pc' = [pc EXCEPT ![t] = IF pc[t] = "close" THEN "done" ELSE "done_err"]
    /\ UNCHANGED <<umVars, uiVars, nameVars, devVars, ctlVars, nthreads, timer,
                   received, gate, dirs, nlines>>

\* log_data has returned or died without ser.close() (line 424 skipped): the
\* Serial object is unreachable, and the port is closed when the interpreter
\* finalizes the object, which the language leaves to the implementation
ser_finalized(t) ==
    /\ Running
    /\ pc[t] \in {"file_failed", "crashed"}
    /\ ser[t] # None
    /\ ser' = [ser EXCEPT ![t] = None]
    /\ UNCHANGED <<umVars, uiVars, nameVars, devVars, ctlVars, nthreads, pc, fpath,
                   fpos, fbuf, line, timer, received, gate, envVars>>

\* ------------------------------------------ the interactive thread, again
\* the event loop runs the oldest callback posted with window.after(0, ...).
\* The lambda of line 427 reads e, the name of the except clause, which
\* Python unbinds when the clause ends: e_bound tells whether the callback
\* runs before the thread has left the clause (the box is shown) or after
\* (NameError, which Tk prints to stderr: no box). The two threads race.
after_callback(e_bound) ==
    /\ MainIdle
    /\ afterq # <<>>
    /\ afterq' = Tail(afterq)
    /\ CASE Head(afterq) = "showerror" ->
                /\ msgbox' = IF e_bound THEN "Serial connection failed" ELSE msgbox
                /\ UNCHANGED ctlVars
         [] Head(afterq) = "stop_logging" ->
                /\ stop_logging
                /\ UNCHANGED <<msgbox, log_thread>>
    /\ UNCHANGED <<umVars, window, ui_pc, grace, nameVars, devVars, thrVars, envVars>>

\* FileNamingGUI.logout up to time.sleep(1); confirm: the answer to
\* "Stop logging and logout?"
logout(confirm) ==
    /\ MainIdle
    /\ msgbox' = "none"
    /\ IF is_logging
       THEN IF confirm
            THEN /\ stop_logging
                 /\ ui_pc' = "logout_grace"
                 /\ grace' = GraceDelay
                 /\ UNCHANGED <<umVars, window, afterq, log_thread>>
            ELSE UNCHANGED <<umVars, window, ui_pc, grace, afterq, ctlVars>>
       ELSE /\ UserManager_logout
            /\ window' = "login"
            /\ afterq' = <<>>
            /\ UNCHANGED <<users, users_file, ui_pc, grace, ctlVars>>
    /\ UNCHANGED <<nameVars, devVars, thrVars, envVars>>

\* FileNamingGUI.logout after time.sleep(1): lines 440-445
logout_end ==
    /\ window = "main"
    /\ ui_pc = "logout_grace"
    /\ grace = 0
    /\ UserManager_logout
    /\ window' = "login"
    /\ ui_pc' = "idle"
    /\ afterq' = <<>>
    /\ UNCHANGED <<users, users_file, grace, msgbox, nameVars, devVars, ctlVars, thrVars, envVars>>

\* FileNamingGUI.on_closing up to time.sleep(1); confirm: the answer to
\* "Stop logging and exit?"
on_closing(confirm) ==
    /\ MainIdle
    /\ msgbox' = "none"
    /\ IF is_logging
       THEN IF confirm
            THEN /\ stop_logging
                 /\ ui_pc' = "closing_grace"
                 /\ grace' = GraceDelay
                 /\ UNCHANGED <<window, afterq, log_thread>>
            ELSE UNCHANGED <<window, ui_pc, grace, afterq, ctlVars>>
       ELSE /\ window' = "closed"
            /\ afterq' = <<>>
            /\ UNCHANGED <<ui_pc, grace, ctlVars>>
    /\ UNCHANGED <<umVars, nameVars, devVars, thrVars, envVars>>

\* FileNamingGUI.on_closing after time.sleep(1): self.window.destroy()
on_closing_end ==
    /\ window = "main"
    /\ ui_pc = "closing_grace"
    /\ grace = 0
    /\ window' = "closed"
    /\ ui_pc' = "idle"
    /\ afterq' = <<>>
    /\ UNCHANGED <<umVars, grace, msgbox, nameVars, devVars, ctlVars, thrVars, envVars>>

\* ---------------------------------------------------------------- time
\* a thread blocked in time.sleep(2) or in ser.readline()
Blocked(t) == pc[t] \in {"settle", "read"} /\ timer[t] > 0

\* one unit (a second) of time passes for every sleeping or reading caller
Tick ==
    /\ Running
    /\ grace > 0 \/ \E t \in Threads : Blocked(t)
    /\ grace' = IF grace > 0 THEN grace - 1 ELSE 0
    /\ timer' = [t \in Threads |-> IF Blocked(t) THEN timer[t] - 1 ELSE timer[t]]
    /\ UNCHANGED <<umVars, window, ui_pc, msgbox, afterq, nameVars, devVars, ctlVars,
                   nthreads, pc, ser, fpath, fpos, fbuf, line, received, gate, envVars>>

\* ------------------------------------------------------ specification
ThreadStep(t) ==
    \/ \E opens \in BOOLEAN : log_data_connect(t, opens)
    \/ log_data_open_file(t)
    \/ log_data_check(t)
    \/ log_data_read_line(t)
    \/ log_data_read_timeout(t)
    \/ log_data_read_error(t)
    \/ log_data_write(t)
    \/ log_data_close(t)

\* the steps of the program, with the inputs of the interactive thread drawn
\* from: userTexts, passwordTexts (the login form), trials (the trial field),
\* folders (the folder entry and dialog), portLists (comports() results),
\* raising (whether comports() may raise); sessions bounds the sessions started
Step(userTexts, passwordTexts, trials, folders, portLists, raising, sessions) ==
    \/ \E u \in userTexts, p \in passwordTexts : login(u, p)
    \/ \E idx \in 1..6 : \E text \in FieldInputs(idx, trials) : edit_field(idx, text)
    \/ \E folder \in folders : edit_folder(folder)
    \/ \E folder \in folders \cup { <<>> } : browse_folder(folder)
    \/ \E ports \in portLists, raises \in raising : detect_arduino(ports, raises)
    \/ \E mkdir_ok, overwrite \in BOOLEAN : start_logging(mkdir_ok, overwrite, sessions)
    \/ stop_button
    \/ \E e_bound \in BOOLEAN : after_callback(e_bound)
    \/ \E confirm \in BOOLEAN : logout(confirm)
    \/ logout_end
    \/ \E confirm \in BOOLEAN : on_closing(confirm)
    \/ on_closing_end
    \/ \E t \in Threads : ThreadStep(t)
    \/ \E t \in Threads : ser_finalized(t)
    \/ Tick

\* The session's life cycle: any login, detection, start, stop, logout and
\* close, with the naming fields left at their defaults.
Next ==
    Step({ "admin", "" }, { "admin123", "wrong" }, { <<"T", "1">> }, { EndoData },
         { <<>>, <<COM3, COM5>> }, { FALSE }, MaxThreads)

Spec == Init /\ [][Next]_vars

\* The scheduling the program can rely on: every live background thread
\* keeps running, time passes, and the event loop runs posted callbacks.
\* Nothing obliges the user to act.
Fairness ==
    /\ \A t \in Threads : WF_vars(ThreadStep(t))
    /\ WF_vars(Tick)
    /\ WF_vars(\E e_bound \in BOOLEAN : after_callback(e_bound))

FairSpec == Spec /\ Fairness

\* One session, with the trial field, the folder and the port list varying.
NextPaths ==
    Step({ "admin" }, { "admin123" }, { <<"T", "1">>, <<"T", "2">> },
         { EndoData, AltFolder }, { <<COM3>>, <<COM3, COM5>> }, { FALSE },
         MaxPathThreads)

SpecPaths == Init /\ [][NextPaths]_vars

\* The credential store and the login form: any store, any texts typed.
\* Naming: free-text naming fields and folders, with one session whose
\* thread has not run yet.
NextNames ==
    \/ \E u \in { "admin", "" }, p \in { "admin123", " " } : login(u, p)
    \/ \E idx \in 1..6 : \E text \in NameTexts(idx) : edit_field(idx, text)
    \/ \E folder \in NameFolders : edit_folder(folder)
    \/ \E folder \in NameFolders : browse_folder(folder)
    \/ \E ports \in { <<>>, <<COM3>> } : detect_arduino(ports, FALSE)
    \/ \E mkdir_ok, overwrite \in BOOLEAN : start_logging(mkdir_ok, overwrite, MaxPathThreads)
    \/ stop_button
    \/ \E confirm \in BOOLEAN : logout(confirm)
    \/ logout_end
    \/ \E confirm \in BOOLEAN : on_closing(confirm)
    \/ on_closing_end
    \/ Tick

SpecNames == Init /\ [][NextNames]_vars

\* Detection: any list of ports, any failure of comports(), around a
\* session whose thread has not run yet.
NextDetect ==
    \/ login("admin", "admin123")
    \/ \E ports \in PortLists, raises \in BOOLEAN : detect_arduino(ports, raises)
    \/ \E overwrite \in BOOLEAN : start_logging(TRUE, overwrite, MaxPathThreads)
    \/ stop_button
    \/ \E confirm \in BOOLEAN : logout(confirm)
    \/ logout_end
    \/ Tick

SpecDetect == Init /\ [][NextDetect]_vars

AuthUserTexts == { "admin", " admin ", "user", "ghost", "", " " }
AuthPasswordTexts == { "admin123", "user123", "wrong", "admin", " " }

NextAuth ==
    \/ \E u \in AuthUserTexts, p \in AuthPasswordTexts : login(u, p)
    \/ \E ports \in { <<>>, <<COM3>>, <<COM3, COM5>> }, raises \in BOOLEAN :
            detect_arduino(ports, raises)
    \/ \E confirm \in BOOLEAN : logout(confirm)
    \/ \E confirm \in BOOLEAN : on_closing(confirm)

SpecAuth == InitAuth /\ [][NextAuth]_vars

\* Loading: users.json in any state when the process starts, then logins.
NextLoad ==
    \/ \E written \in { "ok", "not opened", "broken" } : load_users(written)
    \/ \E u \in AuthUserTexts, p \in AuthPasswordTexts : login(u, p)
    \/ \E ports \in { <<>>, <<COM3>>, <<COM3, COM5>> } : detect_arduino(ports, FALSE)
    \/ \E confirm \in BOOLEAN : logout(confirm)
    \/ \E confirm \in BOOLEAN : on_closing(confirm)

SpecLoad == InitLoad /\ [][NextLoad]_vars

\* ---------------------------------------------------------------- claims
\* a thread of log_data that has ended
Ended(t) == pc[t] \in {"done", "done_err", "conn_failed", "file_failed", "crashed"}

\* the Logging Session is Idle and the controls show it
IdleState == ~is_logging /\ start_btn = "normal" /\ stop_btn = "disabled"

\* C1: at every moment at most one background thread running log_data is alive.
C1_AtMostOneThread == Cardinality({t \in Threads : Alive(t)}) <= 1

\* C2: a background thread that is alive when stop_logging has cleared the
\* stop-flag eventually ends with its output file closed and its rows flushed,
\* whatever the user does next, unless the process exits first.
C2_StopTerminates ==
    \A t \in Threads :
        (window = "main" /\ Alive(t) /\ ~is_logging)
            ~> (window = "closed" \/ (Ended(t) /\ fpath[t] = <<>> /\ fbuf[t] = <<>>))

\* every thread with an open output file has written, through its file
\* object, the header once and first, then one row per line it received;
\* and a file only it has open, once flushed to, starts with the header
HeaderOnceFirst ==
    \A t \in Threads :
        fpath[t] # <<>> =>
            /\ fpos[t] + Len(fbuf[t])
                    = 1 + Len(received[t]) - (IF pc[t] = "write" THEN 1 ELSE 0)
            /\ fpos[t] = 0 => (fbuf[t] # <<>> /\ Head(fbuf[t]) = Header)
            /\ \A k \in 1..Len(fbuf[t]) : (fbuf[t][k] = Header) => (fpos[t] = 0 /\ k = 1)
            /\ (fpos[t] > 0 /\ \A other \in Threads \ {t} : fpath[other] # fpath[t])
                    => (files[fpath[t]] # <<>> /\ Head(files[fpath[t]]) = Header)

\* start_logging's gates: the folder exists or is created, and the target
\* file does not exist or overwriting it is confirmed
GatesPassed(mkdir_ok, overwrite) ==
    /\ Exists(output_folder_var) \/ CanMake(output_folder_var, mkdir_ok)
    /\ ~Exists(full_path_var) \/ overwrite

\* a step that starts exactly one background thread and makes the session Running
SpawnsOne ==
    /\ is_logging'
    /\ nthreads' = nthreads + 1
    /\ pc' = [pc EXCEPT ![nthreads + 1] = "connect"]

\* C3, as claimed: every start_logging call made while Idle makes the session
\* Running and starts exactly one thread, whose file gets the header once, as
\* its first row; a call made while Running changes nothing.
C3_Original ==
    /\ [][\A mkdir_ok, overwrite \in BOOLEAN :
            start_logging(mkdir_ok, overwrite, MaxThreads) =>
                IF is_logging THEN UNCHANGED <<ctlVars, thrVars, envVars>>
                ELSE SpawnsOne]_vars
    /\ []HeaderOnceFirst

\* C3, amended: a start_logging call made while Idle that passes the folder
\* and overwrite gates makes the session Running and starts exactly one
\* thread; one that does not pass them leaves the session Idle and starts
\* none; a thread that opens its output file writes the header once, as its
\* first row; a call made while Running changes nothing.
C3_StartOnce ==
    /\ [][\A mkdir_ok, overwrite \in BOOLEAN :
            start_logging(mkdir_ok, overwrite, MaxThreads) =>
                IF is_logging THEN UNCHANGED <<ctlVars, thrVars, envVars>>
                ELSE IF GatesPassed(mkdir_ok, overwrite) THEN SpawnsOne
                ELSE UNCHANGED <<ctlVars, thrVars, files>>]_vars
    /\ []HeaderOnceFirst

\* a Running session whose thread has flushed the header and a row, with the
\* Start button enabled again by a detection
C3_Witness ==
    /\ is_logging
    /\ start_btn = "normal"
    /\ \E t \in Threads :
        /\ pc[t] = "read"
        /\ fpos[t] = 2
        /\ files[fpath[t]] = <<Header, "line1">>

\* C4: once a thread has left the read loop on a read or decode error and no
\* callback is pending, its session is Idle: is_logging false, Start enabled,
\* Stop disabled.
C4_ReadErrorIdle ==
    \A t \in Threads :
        (pc[t] = "done_err" /\ log_thread = t /\ MainIdle /\ afterq = <<>>) => IdleState

\* C5: a thread truncates a file that already exists only if the start_logging
\* call that started it checked that same path and had the overwrite confirmed.
C5_OverwriteGate ==
    [][\A t \in Threads :
        (fpath[t] = <<>> /\ fpath'[t] # <<>> /\ fpath'[t] \in DOMAIN files) =>
            (gate[t].path = fpath'[t] /\ gate[t].confirmed)]_vars

\* C6: when logout or on_closing, after its stop_logging and time.sleep(1),
\* clears the identity or destroys the window, no background thread is still
\* before or inside its read loop.
C6_TeardownAfterLoop ==
    [][(ui_pc \in {"logout_grace", "closing_grace"} /\ ui_pc' = "idle") =>
        \A t \in Threads : pc'[t] \notin {"connect", "settle", "check", "read", "write"}]_vars

\* C7: a login with a user name and the secret the store holds for it
\* succeeds and sets the identity to that user name and its role; a login with
\* another secret or an unknown user name fails and leaves the identity unset.
\* With the default store, admin/admin123 succeeds with role admin and
\* admin/wrong fails.
C7_Authenticate ==
    [][\A u \in AuthUserTexts, p \in AuthPasswordTexts :
        (login(u, p) /\ Strip(u) # "" /\ Strip(p) # "") =>
            /\ \A secrets \in SecretMaps :
                users = StoreOf(secrets) =>
                    IF Strip(u) \in DOMAIN secrets /\ secrets[Strip(u)].secret = Strip(p)
                    THEN /\ window' = "main"
                         /\ msgbox' = "Welcome"
                         /\ current_user' = Strip(u)
                         /\ current_role' = secrets[Strip(u)].role
                    ELSE /\ window' = "login"
                         /\ msgbox' = "Invalid username or password"
                         /\ current_user' = None
                         /\ current_role' = None
            /\ (users = DefaultUsers /\ Strip(u) = "admin" /\ Strip(p) = "admin123")
                    => (window' = "main" /\ current_user' = "admin" /\ current_role' = "admin")
            /\ (users = DefaultUsers /\ Strip(u) = "admin" /\ Strip(p) = "wrong")
                    => (window' = "login" /\ current_user' = None /\ current_role' = None)]_vars

\* a user of a store other than the default one, logged in with its role
C7_Witness ==
    /\ window = "main"
    /\ msgbox = "Welcome"
    /\ current_user = "ghost"
    /\ current_role = "admin"

\* C8: when a thread's serial.Serial() fails with the main window up, the thread
\* ends and posts the error notice and stop_logging, in this order; when the
\* event loop runs them the notice is shown and the session is forced to Idle
\* (is_logging false, Start enabled, Stop disabled); an ended thread never runs
\* again, and a thread starts only in a start_logging call of the user made
\* with the session Idle.
C8_ConnectFailure ==
    [][ /\ \A t \in Threads :
            (pc[t] = "connect" /\ pc'[t] \notin {"connect", "settle"} /\ window = "main") =>
                /\ pc'[t] = "conn_failed"
                /\ ser'[t] = None
                /\ afterq' = afterq \o <<"showerror", "stop_logging">>
        /\ (MainIdle /\ window' = "main" /\ afterq # <<>> /\ afterq' = Tail(afterq)) =>
                IF Head(afterq) = "showerror"
                THEN msgbox' = "Serial connection failed"
                ELSE IdleState'
        /\ \A t \in Threads : Ended(t) => pc'[t] = pc[t]
        /\ \A t \in Threads :
            (pc[t] = "none" /\ pc'[t] # "none") =>
                /\ MainIdle /\ start_btn = "normal" /\ ~is_logging
                /\ pc'[t] = "connect"
                /\ \A other \in Threads \ {t} : pc'[other] = pc[other] ]_vars

\* C9: a stop_logging call made with the session Idle, here the one a failed
\* thread posted, changes neither is_logging nor the state of the Start and
\* Stop buttons.
C9_StopIdempotent ==
    [][(/\ MainIdle
        /\ window' = "main"
        /\ afterq # <<>>
        /\ Head(afterq) = "stop_logging"
        /\ afterq' = Tail(afterq)
        /\ ~is_logging) =>
            (is_logging' = is_logging /\ start_btn' = start_btn /\ stop_btn' = stop_btn)]_vars

\* C10: the rows on disk of a file a thread has open are the header followed by
\* the lines the thread received, in order, less at most the line in flight.
C10_FileContent ==
    \A t \in Threads :
        fpath[t] # <<>> =>
            \/ files[fpath[t]] = <<Header>> \o received[t]
            \/ /\ pc[t] = "write"
               /\ files[fpath[t]] = <<Header>> \o SubSeq(received[t], 1, Len(received[t]) - 1)

\* C11: an input error changes no state. A login with an empty user name or
\* password leaves the identity unset and the login window up; a declined
\* overwrite leaves the session Idle, starts no thread and creates or
\* truncates nothing on disk; a declined logout or exit leaves the session
\* Running, the identity set and the main window up.
C11_InputErrors ==
    [][ /\ \A u \in { "admin", "" }, p \in { "admin123", " " } :
            (login(u, p) /\ (Strip(u) = "" \/ Strip(p) = "")) =>
                (current_user' = None /\ current_role' = None /\ window' = "login")
        /\ \A mkdir_ok \in BOOLEAN :
            (/\ start_logging(mkdir_ok, FALSE, MaxThreads)
             /\ ~is_logging
             /\ Exists(output_folder_var) \/ CanMake(output_folder_var, mkdir_ok)
             /\ Exists(full_path_var)) =>
                UNCHANGED <<ctlVars, thrVars, envVars>>
        /\ ((logout(FALSE) \/ on_closing(FALSE)) /\ is_logging) =>
                UNCHANGED <<umVars, window, ui_pc, ctlVars, thrVars, envVars>> ]_vars

\* the keywords C12 names
ClaimedKeywords ==
    {   <<"A", "R", "D", "U", "I", "N", "O">>, <<"C", "H", "3", "4", "0">>,
        <<"U", "S", "B", " ", "S", "E", "R", "I", "A", "L">>, <<"F", "T", "D", "I">>   }

\* description contains one of the keywords, letter case aside
Matches(description) ==
    \E keyword \in ClaimedKeywords :
        \E off \in 0..(Len(description) - Len(keyword)) :
            \A j \in 1..Len(keyword) : UpperChar(description[off + j]) = keyword[j]

\* C12: detect_arduino selects the first enumerated port whose description
\* contains, letter case aside, ARDUINO, CH340, USB SERIAL or FTDI, even when
\* a non-matching port comes earlier; with no match and at least one port, the
\* first port; with no port it reports "No Arduino found" and disables Start.
\* For [(COM3, Generic USB), (COM5, Arduino Uno)] it selects COM5.
C12_Detect ==
    [][ /\ \A ports \in PortLists :
            detect_arduino(ports, FALSE) =>
                LET matching == { idx \in 1..Len(ports) : Matches(ports[idx].description) }
                IN  IF matching # {}
                    THEN \E idx \in matching :
                            /\ \A other \in matching : idx <= other
                            /\ arduino_port' = ports[idx].device
                            /\ port_var' = <<"Detected", ports[idx].device>>
                            /\ start_btn' = "normal"
                    ELSE IF ports # <<>>
                    THEN /\ arduino_port' = ports[1].device
                         /\ port_var' = <<"Detected", ports[1].device>>
                         /\ start_btn' = "normal"
                    ELSE /\ port_var' = <<"No Arduino found">>
                         /\ start_btn' = "disabled"
        /\ detect_arduino(<<COM3, COM5>>, FALSE) => arduino_port' = "COM5" ]_vars

\* the port with the lower-case ch340 description selected, after the
\* non-matching COM7 and COM3 and before the matching COM5
C12_Witness ==
    /\ arduino_port = "COM4"
    /\ port_var = <<"Detected", "COM4">>
    /\ start_btn = "normal"

\* the preview shows the six field values in their order, then ".csv", and
\* the folder joined with that filename
Preview ==
    /\ filename_var
            = fields[1] \o fields[2] \o fields[3] \o fields[4] \o fields[5] \o fields[6]
                \o <<".", "c", "s", "v">>
    /\ full_path_var = PathJoin(output_folder_var, filename_var)
    /\ (/\ output_folder_var # <<>>
        /\ Last(output_folder_var) # "/"
        /\ Head(filename_var) # "/")
            => full_path_var = output_folder_var \o <<"/">> \o filename_var
    /\ fields = << <<"C", "R">>, <<"B", "1">>, <<"Y", "1">>, <<"E", "0", "1">>,
                   <<"S", "1">>, <<"T", "1">> >>
            => filename_var = <<"C", "R", "B", "1", "Y", "1", "E", "0", "1", "S", "1",
                                "T", "1", ".", "c", "s", "v">>

\* C13: after every field-change notification (a key released in a naming
\* field or in the folder entry, a folder chosen with Browse) the field or
\* folder holds the new text, the previewed filename is the six field values
\* concatenated in the order type, model, year, experience, subject, trial
\* followed by ".csv", and the previewed full path is join(folder, filename);
\* the default fields give CRB1Y1E01S1T1.csv.
C13_Preview ==
    [][ /\ \A idx \in 1..6 : \A text \in NameTexts(idx) :
            edit_field(idx, text) => (fields'[idx] = text /\ Preview')
        /\ \A folder \in NameFolders :
            edit_folder(folder) => (output_folder_var' = folder /\ Preview')
        /\ \A folder \in NameFolders \ { <<>> } :
            browse_folder(folder) => (output_folder_var' = folder /\ Preview') ]_vars

\* a preview of edited fields and an edited folder
C13_Witness ==
    /\ fields[1] = <<>>
    /\ fields[2] = <<"T", "1">>
    /\ output_folder_var = <<"X", "/">>
    /\ filename_var = <<"T", "1", "Y", "1", "E", "0", "1", "S", "1", "T", "1",
                        ".", "c", "s", "v">>
    /\ full_path_var = <<"X", "/">> \o filename_var

\* C14: splitting the previewed full path into directory and last component
\* gives back the folder and the composed filename, whatever texts the
\* folder entry and the six naming fields hold.
C14_RoundTrip ==
    window = "main" => PathSplit(full_path_var) = <<output_folder_var, filename_var>>

\* the two default records, holding hashes
SeededDefaults ==
    /\ DOMAIN users = {"admin", "user"}
    /\ users["admin"].role = "admin"
    /\ users["user"].role = "user"
    /\ users["admin"].password = hash_password("admin123")
    /\ users["user"].password = hash_password("user123")
    /\ users["admin"].password # "admin123"
    /\ users["user"].password # "user123"

\* with the empty store every login fails and the identity stays unset
EmptyStoreLocksOut ==
    /\ [](users = EmptyStore => (current_user = None /\ current_role = None))
    /\ [][\A u \in AuthUserTexts, p \in AuthPasswordTexts :
            (users = EmptyStore /\ login(u, p)) =>
                (window' = "login" /\ current_user' = None /\ current_role' = None)]_vars

\* C15, as claimed: load_users with users.json absent seeds exactly the two
\* default records, with hashed passwords, and users.json then holds them;
\* with users.json unreadable or malformed the store becomes empty, every
\* later login fails and the identity stays unset.
C15_Original ==
    /\ [][\A written \in { "ok", "not opened", "broken" } :
            load_users(written) =>
                /\ users_file = AbsentFile =>
                        (SeededDefaults' /\ users_file' = JsonFile(users'))
                /\ users_file \in {UnreadableFile, MalformedFile} =>
                        (users' = EmptyStore /\ users_file' = users_file)]_vars
    /\ EmptyStoreLocksOut

\* C15, amended: load_users with users.json absent seeds exactly the two
\* default records, with hashed passwords, and tries to write them: after a
\* successful write users.json holds them, after a failed one it is still
\* absent or is left malformed, the seeded store being used all the same;
\* with users.json unreadable or malformed the store becomes empty, every
\* later login fails and the identity stays unset.
C15_Load ==
    /\ [][\A written \in { "ok", "not opened", "broken" } :
            load_users(written) =>
                /\ users_file = AbsentFile =>
                        /\ SeededDefaults'
                        /\ written = "ok" => users_file' = JsonFile(users')
                        /\ written # "ok" => users_file' \in {AbsentFile, MalformedFile}
                /\ users_file \in {UnreadableFile, MalformedFile} =>
                        (users' = EmptyStore /\ users_file' = users_file)]_vars
    /\ EmptyStoreLocksOut

\* a login refused by the empty store that a malformed users.json left
C15_Witness ==
    /\ users = EmptyStore
    /\ users_file = MalformedFile
    /\ window = "login"
    /\ msgbox = "Invalid username or password"

\* C16: a thread that has ended after opening the device connection (stop
\* observed, read error, failure to open the output file) has closed the
\* connection and holds no open file.
C16_ConnectionBracket ==
    \A t \in Threads : Ended(t) => (ser[t] = None /\ fpath[t] = <<>>)

\* C17: the file a thread writes and the port it has opened are the output
\* path and the device port in effect when start_logging started it, whatever
\* was edited or detected since.
C17_SessionInputs ==
    \A t \in Threads :
        /\ fpath[t] # <<>> => fpath[t] = gate[t].path
        /\ ser[t] # None => ser[t] = gate[t].port

\* C18: whenever the Start button is enabled or a background thread has been
\* started, arduino_port holds a device that a detection found; it is only
\* ever assigned by a detection that shows the device it found, and a logout
\* followed by a login leaves it assigned.
C18_DeviceReference ==
    /\ []((start_btn = "normal" \/ \E t \in Threads : pc[t] # "none")
            => arduino_port \in {"COM3", "COM5"})
    /\ [][arduino_port' # arduino_port =>
            /\ MainIdle
            /\ arduino_port' \in {"COM3", "COM5"}
            /\ port_var' = <<"Detected", arduino_port'>>]_vars

\* a main window rebuilt after a logout, in which nothing was detected yet,
\* whose Start button a callback of the former session's thread has enabled
C18_Witness ==
    /\ MainIdle
    /\ port_var = <<>>
    /\ start_btn = "normal"
    /\ arduino_port = "COM5"

\* C19: whenever the interactive thread is between two event handlers of the
\* main window, the Stop button is enabled if and only if is_logging is true.
C19_StopButton ==
    MainIdle => (stop_btn = "normal" <=> is_logging)

\* between handlers, is_logging true and Stop enabled although the session's
\* thread has ended on a read error and a detection has enabled Start
C19_Witness ==
    /\ MainIdle
    /\ is_logging
    /\ stop_btn = "normal"
    /\ start_btn = "normal"
    /\ log_thread \in Threads
    /\ pc[log_thread] = "done_err"

====
